---------------------------- MODULE Spec2Model ----------------------------
(***************************************************************************)
(* State-machine model of src/lib/components/IndexTree.svelte: the         *)
(* directory browser and the asynchronous .dat64 decode pipeline           *)
(* (loadFileContent / extractRows).  Every `await` of the source is a      *)
(* point where the handler is suspended and other handlers may run, so     *)
(* each resumption is one action.                                          *)
(*                                                                         *)
(* Strings that the code takes apart (paths) are sequences of one-         *)
(* character strings; header names, which the code only compares and       *)
(* builds, are TLA+ strings.  A nullable value is a sequence of length     *)
(* 0 (null) or 1.                                                          *)
(***************************************************************************)
EXTENDS Integers, Sequences, FiniteSets, Bags, TLC

VARIABLES
    mounted,       \* onMount has run: index and db are constructed
    currentPath,   \* let currentPath
    dirs,          \* let dirs: string[]
    dirContents,   \* let dirContents: { files, dirs }
    fileContent,   \* let fileContent: Uint8Array | null
    datFile,       \* let datFile: DatFile | null
    headers,       \* let headers: Header[]
    rows,          \* let rows: { [key: string]: any }[]
    loading,       \* let loading: boolean
    requests,      \* bag of suspended loadFileContent invocations
    started,       \* history: the number of loadFileContent invocations so far
    lastStarted,   \* history: the path of the most recently started request
    fn             \* inputs and results of the pure-function specification

vars == << mounted, currentPath, dirs, dirContents, fileContent, datFile, headers,
           rows, loading, requests, started, lastStarted, fn >>

-----------------------------------------------------------------------------
(* Bounds of the model. *)

\* Largest number of loadFileContent invocations in one behaviour.
MaxRequests == 2

\* Longest header list drawn for the pure-function specification.
MaxHeaders == 3

\* Largest number of pieces a drawn path is put together from.
MaxPieces == 4

-----------------------------------------------------------------------------
(* Nullable values and strings. *)

Null == << >>

Some(x) == << x >>

\* JavaScript `undefined` as the value of an absent header name.
Absent == "<absent>"

\* Truthiness of a header name: undefined and '' are falsy.
Truthy(name) == name \notin { Absent, "" }

\* s has pat at (1-based) position i.
StartsWithAt(s, pat, i) ==
    /\ i + Len(pat) - 1 <= Len(s)
    /\ \A j \in 1..Len(pat) : s[i + j - 1] = pat[j]

\* String.prototype.indexOf, 1-based; 0 when pat does not occur.
IndexOf(s, pat) ==
    LET hits == { i \in 1..(Len(s) + 1) : StartsWithAt(s, pat, i) }
    IN  IF hits = {} THEN 0 ELSE CHOOSE i \in hits : \A j \in hits : i <= j

\* String.prototype.replace with a string pattern: the first occurrence only.
Replace(s, pat, rep) ==
    LET i == IndexOf(s, pat)
    IN  IF i = 0 THEN s
        ELSE SubSeq(s, 1, i - 1) \o rep \o SubSeq(s, i + Len(pat), Len(s))

\* String.prototype.endsWith.
EndsWith(s, suffix) ==
    /\ Len(suffix) <= Len(s)
    /\ SubSeq(s, Len(s) - Len(suffix) + 1, Len(s)) = suffix

\* Array.prototype.filter on a sequence of paths, keeping '.dat64' files.
RECURSIVE FilterDat64(_)
FilterDat64(files) ==
    IF files = << >> THEN << >>
    ELSE LET rest == FilterDat64(Tail(files))
         IN  IF EndsWith(Head(files), << ".", "d", "a", "t", "6", "4" >>)
             THEN << Head(files) >> \o rest
             ELSE rest

RECURSIVE Split(_, _)
\* String.prototype.split with a one-character separator.
Split(s, sep) ==
    LET i == IndexOf(s, << sep >>)
    IN  IF i = 0 THEN << s >>
        ELSE << SubSeq(s, 1, i - 1) >> \o Split(SubSeq(s, i + 1, Len(s)), sep)

RECURSIVE Join(_, _)
\* Array.prototype.join with a one-character separator.
Join(parts, sep) ==
    IF parts = << >> THEN << >>
    ELSE IF Len(parts) = 1 THEN parts[1]
    ELSE parts[1] \o << sep >> \o Join(Tail(parts), sep)

-----------------------------------------------------------------------------
(* The collaborators: the bundle index, the schema database and the        *)
(* pathofexile-dat reader, over a small fixed bundle.                      *)

DataDir == << "d", "a", "t", "a" >>

Dat64 == << ".", "d", "a", "t", "6", "4" >>

\* The path 'data/<n>.dat64'.
DatPath(n) == DataDir \o << "/", n >> \o Dat64

FileA == DatPath("a")

FileB == DatPath("b")

FileC == DatPath("c")

FileD == DatPath("d")

ReadMe == DataDir \o << "/", "r", ".", "t", "x", "t" >>

\* A directory the index lists under 'data' although its parent 'data/u'
\* holds nothing and is unknown to the index.
SubDir == DataDir \o << "/", "u", "/", "w" >>

Files == { FileA, FileB, FileC, FileD }

\* A row cell whose decoding makes readColumn throw (a reference that
\* points outside the file).
Corrupt == -1

\* JavaScript `undefined` as a cell value.
Undefined == -2

\* BundleIndex.getRootDirs.
GetRootDirs == << DataDir >>

\* BundleIndex.getDirContent: files and sub-directories by full path;
\* Null for a directory the index does not know.
GetDirContent(dirPath) ==
    CASE dirPath = << >>  -> Some([ files |-> << >>, dirs |-> << DataDir >> ])
      [] dirPath = DataDir ->
            Some([ files |-> << FileA, ReadMe, FileB, FileC, FileD >>,
                   dirs  |-> << SubDir >> ])
      [] dirPath = SubDir  -> Some([ files |-> << >>, dirs |-> << >> ])
      [] OTHER             -> Null

\* BundleIndex.loadFileContent: the bytes of a file, as rows of cells.
IndexLoadFileContent(filePath) ==
    CASE filePath = FileA -> << << 1, 2 >>, << 3, 4 >> >>
      [] filePath = FileB -> << << 5, 6 >> >>
      [] filePath = FileC -> << << 7, Corrupt >> >>
      [] filePath = FileD -> << << 8, 9 >>, << 10, 11 >> >>
      [] OTHER            -> << >>

\* A header of the schema database.
Hdr(name, offset, type) == [ name |-> name, offset |-> offset, type |-> type ]

\* DatSchemasDatabase.findByName: the serialized headers of a schema name,
\* Null when the database has no such schema.
DbFindByName(schemaName) ==
    CASE schemaName = << "a" >> ->
            Some(<< Hdr("Id", 0, "u8"), Hdr(Absent, 1, "u8") >>)
      [] schemaName = << "b" >> ->
            Some(<< Hdr("X", 0, "u8"), Hdr("Y", 2, "u8") >>)
      [] schemaName = << "c" >> ->
            Some(<< Hdr("K", 0, "u8"), Hdr("V", 1, "u8") >>)
      [] schemaName = << "d" >> ->
            Some(<< Hdr("Unnamed 1", 0, "u16"), Hdr("", 1, "u8") >>)
      [] OTHER -> Null

\* Byte width of a header's type.
Width(type) == IF type = "u16" THEN 2 ELSE 1

\* readDatFile(filenameOrExt, content): the parsed table.  The name only
\* selects the file format; the table holds the row count, the row length
\* and the row data.
ReadDatFile(filePath, content) ==
    [ rowCount  |-> Len(content),
      rowLength |-> IF content = << >> THEN 0 ELSE Len(content[1]),
      rows      |-> content ]

\* analyzeDatFile: the column statistics; the model keeps the row stride.
AnalyzeDatFile(df) == [ stride |-> df.rowLength ]

\* fromSerializedHeaders: the headers when every one fits the observed
\* stride, Null (no result) otherwise or when the schema is unknown.
FromSerializedHeaders(serialized, columnStats, df) ==
    IF serialized = Null THEN Null
    ELSE LET hs == serialized[1]
         IN  IF \A k \in 1..Len(hs) :
                    hs[k].offset + Width(hs[k].type) <= columnStats.stride
             THEN Some([ headers |-> hs ])
             ELSE Null

\* The value of one cell: the little-endian number of the header's bytes.
CellValue(header, row) ==
    IF header.type = "u16"
    THEN row[header.offset + 1] + 256 * row[header.offset + 2]
    ELSE row[header.offset + 1]

\* readColumn throws on this header: one of its bytes is out of the row
\* or cannot be decoded.
ColumnThrows(header, df) ==
    \E i \in 1..df.rowCount :
        \E b \in 1..Width(header.type) :
            \/ header.offset + b > Len(df.rows[i])
            \/ df.rows[i][header.offset + b] = Corrupt

\* readColumn: the column of a header, one value per row.
ReadColumn(header, df) ==
    [ i \in 1..df.rowCount |-> CellValue(header, df.rows[i]) ]

-----------------------------------------------------------------------------
(* The pure parts of the component. *)

\* Line 78: filePath.replace('data/', '').replace('.dat64', '').
SchemaName(filePath) ==
    Replace(Replace(filePath, DataDir \o << "/" >>, << >>), Dat64, << >>)

\* DefaultName with the position counted from 1.
DefaultNameOneBased(name, index) ==
    IF Truthy(name) THEN name ELSE "Unnamed " \o ToString(index + 1)

\* Line 97: the name given to the header at (0-based) position index.
DefaultName(name, index) ==
    IF Truthy(name) THEN name ELSE "Unnamed " \o ToString(index)

\* Lines 95-98: headersResult.headers.map((header, index) => ({...header,
\* name: ...})).  Sequences are 1-based, the index of map is 0-based.
AssignNames(hs) ==
    [ k \in 1..Len(hs) |->
        [ hs[k] EXCEPT !.name = DefaultName(hs[k].name, k - 1) ] ]

\* Lines 129-131: row[header.name] = value, when the name is truthy.
SetEntry(row, name, value) ==
    IF Truthy(name)
    THEN [ n \in (DOMAIN row) \cup { name } |->
             IF n = name THEN value ELSE row[n] ]
    ELSE row

\* Line 128: columns[index][i].  Indexing what is not a decoded column (a
\* promise still pending) or indexing past the end of a column gives
\* undefined.
ColumnValue(columns, k, i) ==
    IF columns[k] = Null THEN Undefined
    ELSE IF i \notin DOMAIN columns[k][1] THEN Undefined
    ELSE columns[k][1][i]

RECURSIVE RowUpTo(_, _, _, _)
\* Lines 126-132: the row of index i after the first k headers were visited.
RowUpTo(hs, columns, i, k) ==
    IF k = 0 THEN << >>
    ELSE SetEntry(RowUpTo(hs, columns, i, k - 1), hs[k].name,
                  ColumnValue(columns, k, i))

\* Transpose reading every row from the first value of each column.
TransposeFirstValue(df, hs, columns) ==
    [ i \in 1..df.rowCount |-> RowUpTo(hs, columns, 1, Len(hs)) ]

\* Lines 124-134 and 137: the rows pushed for i = 0 .. rowCount - 1.
Transpose(df, hs, columns) ==
    [ i \in 1..df.rowCount |-> RowUpTo(hs, columns, i, Len(hs)) ]

\* Lines 118-138 run without interruption: Null when a readColumn throws
\* (Promise.all rejects), the rows otherwise.
ExtractRows(df, hs) ==
    IF \E k \in 1..Len(hs) : ColumnThrows(hs[k], df)
    THEN Null
    ELSE Some(Transpose(df, hs,
                        [ k \in 1..Len(hs) |-> Some(ReadColumn(hs[k], df)) ]))

\* Lines 73-111 run without interruption on one file: Null when the
\* invocation does not reach line 111, the headers and rows it assigns
\* otherwise.
Decode(filePath) ==
    LET content == IndexLoadFileContent(filePath)
        df      == ReadDatFile(filePath, content)
        result  == FromSerializedHeaders(DbFindByName(SchemaName(filePath)),
                                         AnalyzeDatFile(df), df)
    IN  IF result = Null THEN Null
        ELSE LET hs == AssignNames(result[1].headers)
                 rs == ExtractRows(df, hs)
             IN  IF rs = Null THEN Null
                 ELSE Some([ headers |-> hs, rows |-> rs[1] ])

-----------------------------------------------------------------------------
(* The state machine. *)

\* The locals of a loadFileContent invocation suspended at its first await.
NewRequest(filePath) ==
    [ pc                |-> "await75",
      filePath          |-> filePath,
      schemaName        |-> Null,
      columnStats       |-> Null,
      serializedHeaders |-> Null,
      xDatFile          |-> Null,
      xHeaders          |-> << >>,
      columns           |-> << >>,
      xRows             |-> << >> ]

InFlight == BagToSet(requests)

\* The invocation r goes on as r2.
Move(r, r2) == (requests (-) SetToBag({ r })) (+) SetToBag({ r2 })

\* The invocation r has ended (returned or rejected).
Drop(r) == requests (-) SetToBag({ r })

\* Line 36 with the search box left empty: every file passes the filter.
FilteredFiles == dirContents.files

\* Lines 14-21: the component before onMount has run.
Constructed ==
    /\ mounted = FALSE
    /\ currentPath = << >>
    /\ dirs = << >>
    /\ dirContents = [ files |-> << >>, dirs |-> << >> ]
    /\ fileContent = Null
    /\ datFile = Null
    /\ headers = << >>
    /\ rows = << >>
    /\ loading = FALSE
    /\ requests = EmptyBag
    /\ started = 0
    /\ lastStarted = Null

Init == Constructed /\ fn = [ phase |-> "off" ]

\* loadDirContents without the '.dat64' filter of line 68.
LoadDirContentsUnfiltered(dirPath) ==
    LET found    == GetDirContent(dirPath)
        contents == IF found = Null THEN [ files |-> << >>, dirs |-> << >> ]
                    ELSE found[1]
    IN  /\ currentPath' = dirPath
        /\ dirContents' = [ dirs |-> contents.dirs, files |-> contents.files ]

\* Lines 63-70: loadDirContents(dirPath).
LoadDirContents(dirPath) ==
    LET found    == GetDirContent(dirPath)
        contents == IF found = Null THEN [ files |-> << >>, dirs |-> << >> ]
                    ELSE found[1]
    IN  /\ currentPath' = dirPath
        /\ dirContents' = [ dirs  |-> contents.dirs,
                            files |-> FilterDat64(contents.files) ]

\* Lines 41-60: onMount.  No handler of the component can run between its
\* awaits (no button is rendered before dirContents is loaded), so it is
\* one step.
OnMount ==
    /\ ~mounted
    /\ mounted' = TRUE
    /\ loading' = FALSE
    /\ dirs' = GetRootDirs
    /\ LoadDirContents(<< >>)
    /\ UNCHANGED << fileContent, datFile, headers, rows, requests, started,
                    lastStarted, fn >>

\* A directory click that also clears the displayed table.
DirClickResetting(index) ==
    /\ index \in 1..Len(dirContents.dirs)
    /\ LoadDirContents(dirContents.dirs[index])
    /\ headers' = << >>
    /\ rows' = << >>
    /\ UNCHANGED << mounted, dirs, fileContent, datFile, loading, requests,
                    started, lastStarted, fn >>

\* Line 176: a click on the button of directory index.
DirClick(index) ==
    /\ index \in 1..Len(dirContents.dirs)
    /\ LoadDirContents(dirContents.dirs[index])
    /\ UNCHANGED << mounted, dirs, fileContent, datFile, headers, rows,
                    loading, requests, started, lastStarted, fn >>

\* The path without its first '/'-separated part.
ParentPathDropFirst(path) ==
    LET parts == Split(path, "/")
    IN  Join(Tail(parts), "/")

\* Lines 143-145: the path without its last '/'-separated part.
ParentPath(path) ==
    LET parts == Split(path, "/")
    IN  Join(SubSeq(parts, 1, Len(parts) - 1), "/")

\* Lines 141-147 and 159-163: goUp, whose button is rendered when
\* currentPath is not empty.
GoUp ==
    /\ currentPath # << >>
    /\ LoadDirContents(ParentPath(currentPath))
    /\ UNCHANGED << mounted, dirs, fileContent, datFile, headers, rows,
                    loading, requests, started, lastStarted, fn >>

\* LoadFileContent refused while an earlier request is loading.
LoadFileContentUnlessLoading(index) ==
    /\ ~loading
    /\ index \in 1..Len(FilteredFiles)
    /\ started < MaxRequests
    /\ started' = started + 1
    /\ loading' = TRUE
    /\ requests' = requests (+) SetToBag({ NewRequest(FilteredFiles[index]) })
    /\ lastStarted' = Some(FilteredFiles[index])
    /\ UNCHANGED << mounted, currentPath, dirs, dirContents, fileContent,
                    datFile, headers, rows, fn >>

\* Lines 202 and 73-75: a click on the button of file index starts
\* loadFileContent, which runs to its first await.
LoadFileContent(index) ==
    /\ index \in 1..Len(FilteredFiles)
    /\ started < MaxRequests
    /\ started' = started + 1
    /\ loading' = TRUE
    /\ requests' = requests (+) SetToBag({ NewRequest(FilteredFiles[index]) })
    /\ lastStarted' = Some(FilteredFiles[index])
    /\ UNCHANGED << mounted, currentPath, dirs, dirContents, fileContent,
                    datFile, headers, rows, fn >>

\* Lines 75-81: the bytes arrive; the schema name is derived and the first
\* import awaited.
Resume75(r) ==
    /\ r.pc = "await75"
    /\ fileContent' = Some(IndexLoadFileContent(r.filePath))
    /\ requests' = Move(r, [ r EXCEPT !.pc = "await81",
                                      !.schemaName = Some(SchemaName(r.filePath)) ])
    /\ UNCHANGED << mounted, currentPath, dirs, dirContents, datFile, headers,
                    rows, loading, started, lastStarted, fn >>

\* Lines 81-83: an import resolves and the next one is awaited.
ResumeImport(r) ==
    /\ r.pc \in { "await81", "await82" }
    /\ requests' = Move(r, [ r EXCEPT !.pc = IF r.pc = "await81" THEN "await82"
                                             ELSE "await83" ])
    /\ UNCHANGED << mounted, currentPath, dirs, dirContents, fileContent,
                    datFile, headers, rows, loading, started, lastStarted, fn >>

\* Lines 83-87: the last import resolves; the component's fileContent is
\* parsed into datFile and analyzeDatFile(datFile) is awaited.
Resume83(r) ==
    /\ r.pc = "await83"
    /\ LET df == ReadDatFile(r.filePath, fileContent[1])
       IN  /\ datFile' = Some(df)
           /\ requests' = Move(r, [ r EXCEPT !.pc = "await87",
                                             !.columnStats = Some(AnalyzeDatFile(df)) ])
    /\ UNCHANGED << mounted, currentPath, dirs, dirContents, fileContent,
                    headers, rows, loading, started, lastStarted, fn >>

\* Lines 87-90: the statistics arrive and db.findByName is awaited.
Resume87(r) ==
    /\ r.pc = "await87"
    /\ requests' = Move(r, [ r EXCEPT !.pc = "await90",
                                      !.serializedHeaders = DbFindByName(r.schemaName[1]) ])
    /\ UNCHANGED << mounted, currentPath, dirs, dirContents, fileContent,
                    datFile, headers, rows, loading, started, lastStarted, fn >>

\* Line 91: the header inference on the component's datFile.
HeadersResult(r) ==
    FromSerializedHeaders(r.serializedHeaders, r.columnStats[1], datFile[1])

\* Lines 90-105 and 118-120: headers found; they are named and assigned,
\* and extractRows(datFile, headers) runs to its import.
Resume90Valid(r) ==
    /\ r.pc = "await90"
    /\ HeadersResult(r) # Null
    /\ headers' = AssignNames(HeadersResult(r)[1].headers)
    /\ requests' = Move(r, [ r EXCEPT !.pc = "await120",
                                      !.schemaName = Null,
                                      !.columnStats = Null,
                                      !.serializedHeaders = Null,
                                      !.xDatFile = datFile,
                                      !.xHeaders = headers' ])
    /\ UNCHANGED << mounted, currentPath, dirs, dirContents, fileContent,
                    datFile, rows, loading, started, lastStarted, fn >>

\* Resume90Invalid going on into extractRows with no headers: the headers
\* and, later, the rows are assigned.
Resume90InvalidExtracting(r) ==
    /\ r.pc = "await90"
    /\ HeadersResult(r) = Null
    /\ headers' = << >>
    /\ requests' = Move(r, [ r EXCEPT !.pc = "await120",
                                      !.schemaName = Null,
                                      !.columnStats = Null,
                                      !.serializedHeaders = Null,
                                      !.xDatFile = datFile,
                                      !.xHeaders = << >> ])
    /\ UNCHANGED << mounted, currentPath, dirs, dirContents, fileContent,
                    datFile, rows, loading, started, lastStarted, fn >>

\* Lines 90-93 and 112-115: no header result; a warning is logged and the
\* invocation returns.
Resume90Invalid(r) ==
    /\ r.pc = "await90"
    /\ HeadersResult(r) = Null
    /\ requests' = Drop(r)
    /\ UNCHANGED << mounted, currentPath, dirs, dirContents, fileContent,
                    datFile, headers, rows, loading, started, lastStarted, fn >>

\* Lines 120-121: the import resolves; readColumn is called for every
\* header and Promise.all awaited.
Resume120(r) ==
    /\ r.pc = "await120"
    /\ requests' = Move(r, [ r EXCEPT !.pc = "await121",
                                      !.columns = [ k \in 1..Len(r.xHeaders) |-> Null ] ])
    /\ UNCHANGED << mounted, currentPath, dirs, dirContents, fileContent,
                    datFile, headers, rows, loading, started, lastStarted, fn >>

\* The headers of r whose column decode has not completed.
Pending(r) == { k \in 1..Len(r.columns) : r.columns[k] = Null }

\* DecodedColumn reading the datFile of the component, not the parameter.
DecodedColumnFromComponent(r, k) == ReadColumn(r.xHeaders[k], datFile[1])

\* Line 121: readColumn(header, datFile) on the parameters of extractRows.
DecodedColumn(r, k) == ReadColumn(r.xHeaders[k], r.xDatFile[1])

\* Line 121: the readColumn of header k completes with its column.
ColumnDecoded(r, k) ==
    /\ r.pc = "await121"
    /\ k \in Pending(r)
    /\ ~ColumnThrows(r.xHeaders[k], r.xDatFile[1])
    /\ requests' = Move(r, [ r EXCEPT !.columns[k] = Some(DecodedColumn(r, k)) ])
    /\ UNCHANGED << mounted, currentPath, dirs, dirContents, fileContent,
                    datFile, headers, rows, loading, started, lastStarted, fn >>

\* Lines 121 and 105: the readColumn of header k throws; Promise.all
\* rejects, and so do extractRows and loadFileContent, which has no catch.
ColumnFailed(r, k) ==
    /\ r.pc = "await121"
    /\ k \in Pending(r)
    /\ ColumnThrows(r.xHeaders[k], r.xDatFile[1])
    /\ requests' = Drop(r)
    /\ UNCHANGED << mounted, currentPath, dirs, dirContents, fileContent,
                    datFile, headers, rows, loading, started, lastStarted, fn >>

\* Promise.all resolving with the first column decode (as Promise.race).
AnySettled(r) == Pending(r) # 1..Len(r.columns) \/ r.columns = << >>

\* Line 121: Promise.all resolves once no column decode is pending.
AllSettled(r) == Pending(r) = {}

\* Lines 121-137: Promise.all resolves; the rows are assembled and
\* returned to the await of line 105.
Join121(r) ==
    /\ r.pc = "await121"
    /\ AllSettled(r)
    /\ requests' = Move(r, [ r EXCEPT
            !.pc = "await105",
            !.xRows = Transpose(r.xDatFile[1], r.xHeaders, r.columns) ])
    /\ UNCHANGED << mounted, currentPath, dirs, dirContents, fileContent,
                    datFile, headers, rows, loading, started, lastStarted, fn >>

\* Lines 105-111: the rows are assigned and loading is reset.
Resume105(r) ==
    /\ r.pc = "await105"
    /\ rows' = r.xRows
    /\ loading' = FALSE
    /\ requests' = Drop(r)
    /\ UNCHANGED << mounted, currentPath, dirs, dirContents, fileContent,
                    datFile, headers, started, lastStarted, fn >>

Next ==
    \/ OnMount
    \/ \E index \in 1..Len(dirContents.dirs) : DirClick(index)
    \/ GoUp
    \/ \E index \in 1..Len(FilteredFiles) : LoadFileContent(index)
    \/ \E r \in InFlight : Resume75(r)
    \/ \E r \in InFlight : ResumeImport(r)
    \/ \E r \in InFlight : Resume83(r)
    \/ \E r \in InFlight : Resume87(r)
    \/ \E r \in InFlight : Resume90Valid(r)
    \/ \E r \in InFlight : Resume90Invalid(r)
    \/ \E r \in InFlight : Resume120(r)
    \/ \E r \in InFlight : \E k \in 1..Len(r.columns) : ColumnDecoded(r, k)
    \/ \E r \in InFlight : \E k \in 1..Len(r.columns) : ColumnFailed(r, k)
    \/ \E r \in InFlight : Join121(r)
    \/ \E r \in InFlight : Resume105(r)

Spec == Init /\ [][Next]_vars

-----------------------------------------------------------------------------
(* The pure functions on drawn inputs: the placeholder naming of lines     *)
(* 95-98 and extractRows, applied to every header list up to MaxHeaders.   *)

\* The headers a schema may hold: named, unnamed (absent or empty) or named
\* like a placeholder, at either byte of a two-byte row.
HeaderChoices ==
    { Hdr(name, offset, "u8") : name \in { Absent, "", "A", "Unnamed 1" },
                                offset \in 0..1 }

HeaderLists == UNION { [ 1..n -> HeaderChoices ] : n \in 0..MaxHeaders }

\* The table the drawn headers are applied to.
FnDatFile == ReadDatFile(FileA, IndexLoadFileContent(FileA))

\* The header list hs in the order given by the permutation p.
Permute(hs, p) == [ k \in 1..Len(hs) |-> hs[p[k]] ]

InitFn ==
    /\ Constructed
    /\ \E hs \in HeaderLists : \E p \in Permutations(1..Len(hs)) :
          fn = [ phase |-> "input", hs |-> hs, perm |-> p, named |-> << >>,
                 rows |-> Null, rowsPerm |-> Null, rowsNamed |-> Null ]

\* Lines 95-98 on the drawn header list.
FnAssignNames ==
    /\ fn.phase = "input"
    /\ fn' = [ fn EXCEPT !.phase = "named", !.named = AssignNames(fn.hs) ]
    /\ UNCHANGED << mounted, currentPath, dirs, dirContents, fileContent,
                    datFile, headers, rows, loading, requests, started,
                    lastStarted >>

\* extractRows on the drawn list, on its permutation and on the named list.
FnExtractRows ==
    /\ fn.phase = "named"
    /\ fn' = [ fn EXCEPT
            !.phase = "extracted",
            !.rows = ExtractRows(FnDatFile, fn.hs),
            !.rowsPerm = ExtractRows(FnDatFile, Permute(fn.hs, fn.perm)),
            !.rowsNamed = ExtractRows(FnDatFile, fn.named) ]
    /\ UNCHANGED << mounted, currentPath, dirs, dirContents, fileContent,
                    datFile, headers, rows, loading, requests, started,
                    lastStarted >>

NextFn == FnAssignNames \/ FnExtractRows

SpecFn == InitFn /\ [][NextFn]_vars

-----------------------------------------------------------------------------
(* The schema name of line 78 on drawn paths.                              *)

\* The pieces drawn paths are put together from: 'data/', 'meta', 'x',
\* '.dat64' and '/'.
PathPieces ==
    { DataDir \o << "/" >>, << "m", "e", "t", "a" >>, << "x" >>, Dat64, << "/" >> }

RECURSIVE Concat(_)
\* The pieces of a sequence, one after the other.
Concat(pieces) ==
    IF pieces = << >> THEN << >> ELSE Head(pieces) \o Concat(Tail(pieces))

DrawnPaths ==
    { Concat(ps) : ps \in UNION { [ 1..n -> PathPieces ] : n \in 0..MaxPieces } }

InitPath ==
    /\ Constructed
    /\ \E path \in DrawnPaths :
          fn = [ phase |-> "path", path |-> path, schemaName |-> Null ]

\* Line 78 on the drawn path.
FnSchemaName ==
    /\ fn.phase = "path"
    /\ fn' = [ fn EXCEPT !.phase = "schema",
                         !.schemaName = Some(SchemaName(fn.path)) ]
    /\ UNCHANGED << mounted, currentPath, dirs, dirContents, fileContent,
                    datFile, headers, rows, loading, requests, started,
                    lastStarted >>

NextPath == FnSchemaName

SpecPath == InitPath /\ [][NextPath]_vars

-----------------------------------------------------------------------------
(* Properties of overlapping loadFileContent invocations (Spec). *)

\* C1: once every request has finished, headers and rows are those of the
\* most recently started request (when that request, run alone, delivers
\* a table): a superseded request never writes into the displayed state.
C1_LatestRequestWins ==
    ( /\ requests = EmptyBag
      /\ lastStarted # Null
      /\ Decode(lastStarted[1]) # Null )
    => /\ headers = Decode(lastStarted[1])[1].headers
       /\ rows = Decode(lastStarted[1])[1].rows

\* C2: every extractRows call of a loadFileContent that found headers
\* returns exactly rowCount rows, each with exactly len(headers) named
\* entries.
C2_RowCountAndEntries ==
    \A r \in InFlight :
        r.pc = "await105" =>
            /\ Len(r.xRows) = r.xDatFile[1].rowCount
            /\ \A i \in 1..Len(r.xRows) :
                  Cardinality(DOMAIN r.xRows[i]) = Len(r.xHeaders)

\* The header inference of file f, run alone, gives no result.
Mismatch(f) ==
    LET df == ReadDatFile(f, IndexLoadFileContent(f))
    IN  FromSerializedHeaders(DbFindByName(SchemaName(f)),
                              AnalyzeDatFile(df), df) = Null

\* C6: once every request has finished, the component is never left
\* showing a table (loading = false) with fileContent and datFile of a
\* file whose header inference failed next to the headers and rows of
\* another, earlier loaded file.
C6_NoPartialStateOnMismatch ==
    ~ \E f \in Files :
        /\ Mismatch(f)
        /\ requests = EmptyBag
        /\ ~loading
        /\ fileContent = Some(IndexLoadFileContent(f))
        /\ datFile = Some(ReadDatFile(f, IndexLoadFileContent(f)))
        /\ \E g \in Files \ { f } :
              /\ Decode(g) # Null
              /\ headers = Decode(g)[1].headers
              /\ rows = Decode(g)[1].rows

\* C7: an extractRows call that awaits its columns is never lost to a
\* failing column decode: after any step it still awaits them or has
\* returned rowCount rows to loadFileContent.
C7_ColumnFailureDoesNotAbort ==
    [][ \A r \in InFlight :
          r.pc = "await121" =>
             \E r2 \in InFlight' :
                /\ r2.pc \in { "await121", "await105" }
                /\ r2.filePath = r.filePath
                /\ r2.xHeaders = r.xHeaders
                /\ r2.xDatFile = r.xDatFile
                /\ r2.pc = "await105" => Len(r2.xRows) = r2.xDatFile[1].rowCount
      ]_vars

\* The click of some file button is possible.
CanLoadFile == ENABLED (\E index \in 1..Len(FilteredFiles) : LoadFileContent(index))

\* C9 as stated: a new file request can be issued in every reachable state
\* (of those within the bound on the number of requests).
C9_AlwaysEnabled == started < MaxRequests => CanLoadFile

\* C9 amended: whenever the file list shows at least one file, a new file
\* request can be issued, whatever loading is and whatever earlier
\* requests are doing.
C9_EnabledWhenFileListed ==
    (started < MaxRequests /\ FilteredFiles # << >>) => CanLoadFile

\* C9 witness: a file can be requested while loading is true and column
\* decodes of an earlier request are in flight.
C9_Witness ==
    /\ started < MaxRequests
    /\ loading
    /\ \E r \in InFlight : r.pc = "await121" /\ Pending(r) # {}
    /\ CanLoadFile

\* C10: within one extractRows call the rows are assembled only after the
\* column of every header has been decoded.
C10_JoinBeforeTranspose ==
    \A r \in InFlight :
        r.pc = "await105" =>
            /\ Pending(r) = {}
            /\ Len(r.columns) = Len(r.xHeaders)
            /\ \A i \in 1..Len(r.xRows) : \A n \in DOMAIN r.xRows[i] :
                  r.xRows[i][n] # Undefined

\* C10 witness: rows were assembled from two decoded columns.
C10_Witness ==
    \E r \in InFlight :
        /\ r.pc = "await105"
        /\ Len(r.xHeaders) = 2
        /\ Len(r.xRows) = 2

-----------------------------------------------------------------------------
(* Properties of the pure functions (SpecFn). *)

\* The names of hs are truthy and pairwise distinct.
DistinctNames(hs) ==
    /\ \A k \in 1..Len(hs) : Truthy(hs[k].name)
    /\ \A j, k \in 1..Len(hs) : j # k => hs[j].name # hs[k].name

\* C3: for headers with pairwise distinct non-empty names, extractRows
\* returns rowCount rows in row order, and row i maps the name of the
\* k-th header to the i-th value of the column decoded for that header.
C3_Transposed ==
    (fn.phase = "extracted" /\ DistinctNames(fn.hs)) =>
        /\ fn.rows # Null
        /\ Len(fn.rows[1]) = FnDatFile.rowCount
        /\ \A i \in 1..FnDatFile.rowCount :
              /\ DOMAIN fn.rows[1][i] = { fn.hs[k].name : k \in 1..Len(fn.hs) }
              /\ \A k \in 1..Len(fn.hs) :
                    /\ fn.rows[1][i][fn.hs[k].name] = ReadColumn(fn.hs[k], FnDatFile)[i]
                    /\ fn.rows[1][i][fn.hs[k].name] =
                          IndexLoadFileContent(FileA)[i][fn.hs[k].offset + 1]

\* C3 witness: two distinctly named headers on different bytes were
\* transposed.
C3_Witness ==
    /\ fn.phase = "extracted"
    /\ Len(fn.hs) = 2
    /\ DistinctNames(fn.hs)
    /\ fn.hs[1].offset # fn.hs[2].offset
    /\ fn.rows # Null

\* C4: after placeholder assignment the names of the headers are pairwise
\* distinct.
C4_NamesDistinct ==
    fn.phase = "named" =>
        \A j, k \in 1..Len(fn.named) : j # k => fn.named[j].name # fn.named[k].name

\* C5: a header without a name at (0-based) position k is named
\* 'Unnamed k', a named header keeps its name, the other fields are
\* unchanged; two unnamed headers become 'Unnamed 0' and 'Unnamed 1'.
C5_PlaceholderNames ==
    fn.phase = "named" =>
        /\ Len(fn.named) = Len(fn.hs)
        /\ \A k \in 1..Len(fn.hs) :
              /\ fn.named[k].offset = fn.hs[k].offset
              /\ fn.named[k].type = fn.hs[k].type
              /\ DOMAIN fn.named[k] = DOMAIN fn.hs[k]
              /\ fn.hs[k].name \in { Absent, "" } =>
                    fn.named[k].name = "Unnamed " \o ToString(k - 1)
              /\ fn.hs[k].name \notin { Absent, "" } =>
                    fn.named[k].name = fn.hs[k].name
        /\ ( /\ Len(fn.hs) = 2
             /\ \A k \in 1..2 : fn.hs[k].name \in { Absent, "" } )
           => /\ fn.named[1].name = "Unnamed 0"
              /\ fn.named[2].name = "Unnamed 1"

\* C5 witness: a list of a named header and unnamed headers, one absent
\* and one empty, was named.
C5_Witness ==
    /\ fn.phase = "named"
    /\ Len(fn.hs) = 3
    /\ fn.hs[1].name = Absent
    /\ fn.hs[2].name = "A"
    /\ fn.hs[3].name = ""

\* C8: extractRows on a header list and on any permutation of it gives
\* rows that are equal as name-to-value mappings, for every row index.
C8_OrderIndependent ==
    fn.phase = "extracted" => fn.rows = fn.rowsPerm

-----------------------------------------------------------------------------
(* Properties of the header mismatch, the loading flag and the displayed   *)
(* table (Spec).                                                           *)

\* C11: the step of a request whose header inference gives no result ends
\* the request: it does not enter extractRows and assigns neither headers
\* nor rows.
C11_MismatchMaterializesNothing ==
    [][ \A r \in InFlight :
          ( /\ r.pc = "await90"
            /\ HeadersResult(r) = Null
            /\ CopiesIn(r, requests') < CopiesIn(r, requests) )
          => /\ requests' = Drop(r)
             /\ headers' = headers
             /\ rows' = rows
      ]_vars

\* C11 witness: the only request made was for the mismatched file and has
\* ended; no header and no row was assigned.
C11_Witness ==
    /\ started = 1
    /\ lastStarted = Some(FileB)
    /\ requests = EmptyBag
    /\ headers = << >>
    /\ rows = << >>

-----------------------------------------------------------------------------
(* Properties of the schema name (SpecPath). *)

\* The path without the directory prefix 'data/' it starts with, if any.
StripPrefix(path) ==
    IF StartsWithAt(path, DataDir \o << "/" >>, 1)
    THEN SubSeq(path, Len(DataDir) + 2, Len(path))
    ELSE path

\* The path without the extension '.dat64' it ends with, if any.
StripExtension(path) ==
    IF EndsWith(path, Dat64) THEN SubSeq(path, 1, Len(path) - Len(Dat64))
    ELSE path

\* C12: the schema name is the path without its leading 'data/' and
\* without its trailing '.dat64'; every other occurrence of either inside
\* the path is left intact.
C12_StripsOnlyPrefixAndExtension ==
    fn.phase = "schema" =>
        fn.schemaName = Some(StripExtension(StripPrefix(fn.path)))

\* C13: the decode is a function of the file bytes and the headers: the
\* headers a request names are those of its schema, the rows extractRows
\* returns are those of its datFile and headers, whatever the order in
\* which columns were decoded and whatever other requests did; two runs on
\* the same bytes and headers hold the same rows.
C13_DecodeDeterministic ==
    \A r \in InFlight :
        /\ r.pc \in { "await120", "await121", "await105" } =>
              r.xHeaders = AssignNames(DbFindByName(SchemaName(r.filePath))[1])
        /\ r.pc = "await105" =>
              /\ Some(r.xRows) = ExtractRows(r.xDatFile[1], r.xHeaders)
              /\ \A r2 \in InFlight :
                    ( /\ r2.pc = "await105"
                      /\ r2.xDatFile = r.xDatFile
                      /\ r2.xHeaders = r.xHeaders )
                    => r2.xRows = r.xRows

\* C13 witness: two runs on the same bytes and headers have both returned
\* their rows.
C13_Witness ==
    \E r \in InFlight :
        /\ r.pc = "await105"
        /\ CopiesIn(r, requests) = 2
        /\ Len(r.xRows) = 2

\* C14: once no loadFileContent invocation is in flight, loading is false:
\* every invocation that has run to its end has reset the flag.
C14_LoadingResetWhenIdle ==
    (started > 0 /\ requests = EmptyBag) => ~loading

\* C15: whenever loading is false, every key of every displayed row is the
\* name of a displayed header.
C15_RowsMatchHeaders ==
    ~loading =>
        \A i \in 1..Len(rows) :
            DOMAIN rows[i] \subseteq { headers[k].name : k \in 1..Len(headers) }

\* C16: whenever loading is false, no loadFileContent invocation is in
\* flight.
C16_NotLoadingMeansIdle ==
    ~loading => requests = EmptyBag

\* C17: after mount and any navigation, every listed file ends with
\* '.dat64' and is a file of the index's content for currentPath, the listed
\* directories are that content's directories, and a directory the index
\* does not know lists nothing.
C17_ListingMatchesIndex ==
    mounted =>
        LET found == GetDirContent(currentPath)
        IN  /\ found = Null => dirContents = [ files |-> << >>, dirs |-> << >> ]
            /\ found # Null =>
                  /\ dirContents.dirs = found[1].dirs
                  /\ \A i \in 1..Len(dirContents.files) :
                        /\ EndsWith(dirContents.files[i], Dat64)
                        /\ \E j \in 1..Len(found[1].files) :
                              found[1].files[j] = dirContents.files[i]

C17_Witness ==
    /\ currentPath = DataDir
    /\ Len(dirContents.files) = 4
    /\ \E j \in 1..Len(GetDirContent(DataDir)[1].files) :
          ~EndsWith(GetDirContent(DataDir)[1].files[j], Dat64)

\* The position of the last '/' of path, 0 when it has none.
LastSlash(path) ==
    LET at == { i \in 1..Len(path) : path[i] = "/" }
    IN  IF at = {} THEN 0 ELSE CHOOSE i \in at : \A j \in at : j <= i

\* The path one level up: everything before its last '/', the root when it
\* is a single segment.
UpOneLevel(path) ==
    IF LastSlash(path) = 0 THEN << >>
    ELSE SubSeq(path, 1, LastSlash(path) - 1)

\* C18: a goUp step happens only at a non-empty currentPath, leads to the
\* path one level up, and shortens currentPath, so repeated goUp ends at the
\* root.
C18_GoUpOneLevel ==
    [][ GoUp =>
          /\ currentPath # << >>
          /\ currentPath' = UpOneLevel(currentPath)
          /\ Len(currentPath') < Len(currentPath)
      ]_vars

C18_Witness ==
    /\ currentPath = DataDir \o << "/", "u" >>
    /\ dirContents = [ files |-> << >>, dirs |-> << >> ]

\* C19: a navigation step (after mount, a step that changes currentPath)
\* changes nothing but currentPath and dirContents, whatever requests are in
\* flight.
C19_NavigationLeavesDecodeState ==
    [][ (mounted /\ currentPath' # currentPath) =>
          UNCHANGED << fileContent, datFile, headers, rows, loading,
                       requests, dirs, mounted >>
      ]_vars

C19_Witness ==
    /\ currentPath = SubDir
    /\ loading
    /\ \E r \in InFlight : r.pc = "await105"

=============================================================================
